---- MODULE Spec2Model ----
(***************************************************************************)
(* A model of src/hg_dagger.py: the AutonomousNode of RecurrentLidarNet.   *)
(*                                                                         *)
(* rclpy.spin (line 393) runs the node on the default single-threaded      *)
(* executor, so every callback (lidar_callback, button_callback,           *)
(* sensor_cb, control_loop) runs to completion before the next one starts: *)
(* each callback is one action.  The collaborators of the node (the        *)
(* rosbag2 writer, the TFLite interpreter, matplotlib, the parameter       *)
(* service) are modelled by the outcomes their calls can have.             *)
(*                                                                         *)
(* Spec has the failures the node's error handling is written for (a       *)
(* malformed scan, an interpreter that raises, a write that raises);       *)
(* SpecFault adds a writer whose open and close can raise and a plot that  *)
(* can raise at shutdown.  SpecDelta applies the computation of the time   *)
(* channel of the model input to every full buffer.  SpecThreads and       *)
(* SpecThreadsFair run lidar_callback and control_loop statement by        *)
(* statement on two threads that share buffer_lock.                        *)
(*                                                                         *)
(* Numbers that are floats in the source (model outputs, commands, times)  *)
(* are integers in thousandths.                                            *)
(***************************************************************************)
EXTENDS Integers, Sequences, FiniteSets, TLC

\* ------------------------------------------------------------------ bounds
\* Number of LaserScan messages delivered in a run that explores the buffer.
MaxPush == 3
\* Number of Joy messages delivered in a run that explores the mode toggle.
MaxButtons == 5
\* Number of Joy messages delivered in the other runs.
FewButtons == 2
\* Number of frames one log-writer accepts.
MaxFrames == 2
\* Number of commands appended to the in-memory trace in one run.
MaxTrace == 2
\* Sequence length the model file asks for (inp['shape'][1], lines 50-51);
\* the file is not part of the source, so the value is a bound.
seq_len == 2
\* Number of times the clock is seen to advance in a run that explores time.
MaxTime == 2

\* ------------------------------------------------------- program constants
\* Topics registered by _open_bag and written by sensor_cb.
NumTopics == 6

\* Timestamps a LaserScan header can carry (not ordered by arrival).
Stamps == 0 .. 1
\* Values of msg.buttons[0].
ButtonValues == {0, 1}
\* Normalised (out[0], out[1]) pairs the interpreter can produce.
ModelOuts == {<<500, 1000>>, <<-1000, 500>>}

\* Times are in milliseconds.  self.hz (line 80) and self.period (line 81).
hz == 40
period == 1000 \div hz
\* Time that can pass between two callbacks: one timer period, one second.
Waits == {period, 1000}
\* Time a control tick can take from its entry to its deadline check: less
\* than the clock shows, or more than a period.
TickTimes == {0, 30}

VARIABLES
    buff_scans,        \* deque(maxlen=seq_len) of scans
    buff_ts,           \* deque(maxlen=seq_len) of timestamps
    is_joy,            \* the 'is_joy' parameter: TRUE is manual mode
    prev_button,       \* last button value stored by button_callback
    bag_open,          \* self.bag_open
    writer,            \* self.writer: "none", or the state of the writer object
    recording_active,  \* self.recording_active
    msg_counter,       \* self.msg_counter
    recorded,          \* length of recorded_ts / recorded_speed / recorded_steer
    main_pc,           \* position of main()
    now,               \* time.time(), in milliseconds
    start_ts,          \* self.start_ts
    last_uri,          \* stamp in the uri of the session opened last, or -1
    buffer_lock,       \* self.buffer_lock: "free", or the thread that holds it
    lidar_pc,          \* position of the thread that runs lidar_callback
    dnn_pc,            \* position of the thread that runs control_loop
    msg_t,             \* stamp of the message lidar_callback is working on
    scans_list,        \* scans_list of dnn_output
    ts_list,           \* ts_list of dnn_output
    dnn_ret,           \* what dnn_output is about to return
    faulty,            \* whether writer.open, writer.close and the plot can raise
    budget,            \* what this run delivers: [push, btn] messages in all,
                       \* and the clock advances it has left: time
    \* ---- what the collaborators have seen (not state of the node)
    pushed,            \* every (scan, timestamp) pair appended, in arrival order
    buttons,           \* every button value delivered, in arrival order
    flips,             \* positions in buttons at which the mode was flipped
    writer_frames,     \* frames the current writer object has accepted whole
    open_writers,      \* writer objects opened and not yet closed
    tick_began,        \* time at which the latest control tick was entered
    ev                 \* what the last callback did

vars == <<buff_scans, buff_ts, is_joy, prev_button, bag_open, writer,
          recording_active, msg_counter, recorded, main_pc, now, start_ts,
          last_uri, faulty, budget, pushed, buttons, flips, writer_frames,
          open_writers, tick_began, buffer_lock, lidar_pc, dnn_pc, msg_t,
          scans_list, ts_list, dnn_ret, ev>>

bufferVars == <<buff_scans, buff_ts, pushed>>
modeVars == <<is_joy, prev_button, buttons, flips>>
bagVars == <<bag_open, writer, recording_active, msg_counter, writer_frames,
             open_writers, last_uri>>
timeVars == <<now, start_ts, tick_began>>
lockVars == <<buffer_lock, lidar_pc, dnn_pc, msg_t, scans_list, ts_list,
              dnn_ret>>

\* ---------------------------------------------------------------- events
\* The record of one callback: which one ran and what it did to the
\* collaborators.
NoEv ==
    [op |-> "init", flipped |-> FALSE, opens |-> 0, close_calls |-> 0,
     closes |-> 0, writes |-> 0, pub |-> 0, cmd |-> <<0, 0>>, invoked |-> FALSE,
     snap |-> [scans |-> <<>>, ts |-> <<>>], out |-> <<0, 0>>,
     neutral |-> FALSE, dur |-> 0, warned |-> FALSE, dt |-> <<>>,
     raised |-> FALSE]

\* Outcomes of writer.open, writer.close and plot_results.
Outcomes == IF faulty THEN {"ok", "raise"} ELSE {"ok"}

\* No value returned yet by dnn_output.
NoRet == [out |-> <<0, 0>>, invoked |-> FALSE, neutral |-> FALSE]

\* ---------------------------------------------------------- session state
\* The session fields of the node, as one record.
Bag ==
    [bag_open |-> bag_open, writer |-> writer,
     recording_active |-> recording_active, msg_counter |-> msg_counter,
     writer_frames |-> writer_frames, open_writers |-> open_writers,
     uri |-> last_uri, opens |-> 0, close_calls |-> 0, closes |-> 0, raised |-> FALSE]

\* int(time.time()): whole seconds of the clock.
epoch_seconds == now \div 1000

\* _open_bag without the reset of msg_counter.
open_bag_keeps_counter(b, outcome) ==
    LET fresh == [b EXCEPT !.writer = "new", !.writer_frames = 0]
    IN  IF outcome = "raise"
        THEN [fresh EXCEPT !.raised = TRUE]
        ELSE [fresh EXCEPT !.writer = "open",
                           !.open_writers = b.open_writers + 1,
                           !.opens = b.opens + 1,
                           !.uri = epoch_seconds,
                           !.bag_open = TRUE,
                           !.recording_active = TRUE]

\* _open_bag: a new SequentialWriter replaces the handle, writer.open either
\* succeeds or raises (the flags are set only after it and create_topic).
\* The container is named after the whole second at which it is opened.
open_bag(b, outcome) ==
    LET fresh == [b EXCEPT !.writer = "new", !.writer_frames = 0]
    IN  IF outcome = "raise"
        THEN [fresh EXCEPT !.raised = TRUE]
        ELSE [fresh EXCEPT !.writer = "open",
                           !.open_writers = b.open_writers + 1,
                           !.opens = b.opens + 1,
                           !.uri = epoch_seconds,
                           !.bag_open = TRUE,
                           !.msg_counter = 0,
                           !.recording_active = TRUE]

\* _close_bag that closes the writer and drops the handle but leaves
\* bag_open set.
close_bag_leaves_open(b, outcome) ==
    LET called == b.writer # "none"
        wasOpen == b.writer = "open"
        entered == [b EXCEPT !.close_calls = b.close_calls + 1]
        tried == [entered EXCEPT !.closes = b.closes + 1]
        closed == [tried EXCEPT !.open_writers =
                                    IF wasOpen THEN b.open_writers - 1
                                    ELSE b.open_writers]
    IN  IF called /\ outcome = "raise"
        THEN [tried EXCEPT !.raised = TRUE]
        ELSE [(IF called THEN closed ELSE entered)
                  EXCEPT !.recording_active = FALSE,
                         !.writer = "none",
                         !.writer_frames = 0]

\* _close_bag: writer.close() when there is a handle, then the three fields
\* are reset; a raising close leaves the fields and the writer as they were.
close_bag(b, outcome) ==
    LET called == b.writer # "none"
        wasOpen == b.writer = "open"
        entered == [b EXCEPT !.close_calls = b.close_calls + 1]
        tried == [entered EXCEPT !.closes = b.closes + 1]
        closed == [tried EXCEPT !.open_writers =
                                    IF wasOpen THEN b.open_writers - 1
                                    ELSE b.open_writers]
    IN  IF called /\ outcome = "raise"
        THEN [tried EXCEPT !.raised = TRUE]
        ELSE [(IF called THEN closed ELSE entered)
                  EXCEPT !.bag_open = FALSE,
                         !.recording_active = FALSE,
                         !.writer = "none",
                         !.writer_frames = 0]

\* Assign the session fields from a record.
SetBag(b) ==
    /\ bag_open' = b.bag_open
    /\ writer' = b.writer
    /\ recording_active' = b.recording_active
    /\ msg_counter' = b.msg_counter
    /\ writer_frames' = b.writer_frames
    /\ open_writers' = b.open_writers
    /\ last_uri' = b.uri

\* ------------------------------------------------------------------ buffer
\* An append that refuses the new entry when the deque is full.
deque_append_drops_newest(q, x) ==
    IF Len(q) >= seq_len THEN q ELSE Append(q, x)

\* deque.append on a deque(maxlen=seq_len): the oldest entry is dropped when
\* the deque is full.
deque_append(q, x) ==
    IF Len(q) >= seq_len THEN Append(Tail(q), x) ELSE Append(q, x)

\* What cleaning and subsampling msg.ranges can do: give a scan, or raise
\* (an empty ranges array cannot be indexed).
ScanOutcomes == {"ok", "raise"}

\* lidar_callback: the scan and its timestamp are appended under buffer_lock;
\* an exception raised while the scan is built is logged and nothing is
\* appended.  The k-th pair appended carries scan k; its stamp is any of
\* Stamps.
lidar_callback(t, outcome) ==
    /\ main_pc = "spin"
    /\ IF outcome = "raise"
       THEN /\ ev' = [NoEv EXCEPT !.op = "lidar", !.raised = TRUE]
            /\ UNCHANGED bufferVars
       ELSE /\ Len(pushed) < budget.push
            /\ LET scan == Len(pushed) + 1
               IN  /\ buff_scans' = deque_append(buff_scans, scan)
                   /\ buff_ts' = deque_append(buff_ts, t)
                   /\ pushed' = Append(pushed, <<scan, t>>)
            /\ ev' = [NoEv EXCEPT !.op = "lidar"]
    /\ UNCHANGED <<modeVars, bagVars, timeVars, lockVars, recorded, main_pc,
                   faulty, budget>>

\* ------------------------------------------------------------------- mode
\* A level test in place of the edge test: every 1 toggles.
rising_edge_level(curr, prev) == curr = 1

\* The edge test of button_callback.
rising_edge(curr, prev) == curr = 1 /\ curr # prev

\* toggle_session without the bag_open test: entering manual always opens.
toggle_session_reopens(b, new_val, outcome) ==
    IF new_val THEN open_bag(b, outcome) ELSE close_bag(b, outcome)

\* What button_callback does to the session after it has set the parameter
\* to new_val.
toggle_session(b, new_val, outcome) ==
    IF new_val
    THEN IF ~b.bag_open THEN open_bag(b, outcome)
         ELSE [b EXCEPT !.recording_active = TRUE]
    ELSE close_bag(b, outcome)

\* button_callback: a rising edge flips the parameter, then opens or closes
\* the session; prev_button is stored last, inside the try block.
button_callback(curr, outcome) ==
    /\ main_pc = "spin"
    /\ Len(buttons) < budget.btn
    /\ LET edge == rising_edge(curr, prev_button)
           new_val == ~is_joy
           b == IF edge THEN toggle_session(Bag, new_val, outcome) ELSE Bag
       IN  /\ is_joy' = IF edge THEN new_val ELSE is_joy
           /\ SetBag(b)
           /\ prev_button' = IF b.raised THEN prev_button ELSE curr
           /\ buttons' = Append(buttons, curr)
           /\ flips' = IF is_joy' # is_joy
                       THEN flips \cup {Len(buttons) + 1}
                       ELSE flips
           /\ ev' = [NoEv EXCEPT !.op = "button", !.flipped = edge,
                                 !.opens = b.opens,
                                 !.close_calls = b.close_calls,
                                 !.closes = b.closes, !.raised = b.raised]
    /\ UNCHANGED <<bufferVars, timeVars, lockVars, recorded, main_pc, faulty,
                   budget>>

\* The 'is_joy' parameter is declared without a read-only descriptor, so the
\* node's parameter service lets an operator set it while the node spins.
set_parameter(v) ==
    /\ main_pc = "spin"
    /\ v # is_joy
    /\ is_joy' = v
    /\ ev' = [NoEv EXCEPT !.op = "param"]
    /\ UNCHANGED <<bufferVars, prev_button, buttons, flips, bagVars, timeVars,
                   lockVars, recorded, main_pc, faulty, budget>>

\* ---------------------------------------------------------------- recorder
\* What the six writer.write calls of one frame can do: all return, or one
\* of them raises after the writer has accepted n < NumTopics messages.
WriteOutcomes == {"ok", "raise"}
PartialWrites == {0, NumTopics \div 2}

\* A counter that is incremented before the writes are known to have returned.
frame_counter_counts_failed(c, outcome) == c + 1

\* The counter after the six writes of a frame: the increment (line 228)
\* follows the writes inside the try block, so a write that raises skips it.
frame_counter(c, outcome) == IF outcome = "raise" THEN c ELSE c + 1

\* sensor_cb without its test: every frame is written.
sensor_gate_always == TRUE

\* The test sensor_cb makes before it writes.
sensor_gate == recording_active

\* sensor_cb: a frame is dropped unless recording_active; otherwise the six
\* topic messages are written and then the counter is incremented.  A write
\* that raises (at once, when the handle is no open writer) is logged and
\* the counter keeps its value.
sensor_cb(outcome, n) ==
    /\ main_pc = "spin"
    /\ IF ~sensor_gate
       THEN /\ ev' = [NoEv EXCEPT !.op = "sensor"]
            /\ UNCHANGED bagVars
       ELSE IF writer # "open"
       THEN /\ ev' = [NoEv EXCEPT !.op = "sensor", !.raised = TRUE]
            /\ UNCHANGED bagVars
       ELSE IF outcome = "raise"
       THEN /\ ev' = [NoEv EXCEPT !.op = "sensor", !.writes = n,
                                  !.raised = TRUE]
            /\ msg_counter' = frame_counter(msg_counter, outcome)
            /\ UNCHANGED <<bag_open, writer, recording_active, writer_frames,
                           open_writers, last_uri>>
       ELSE /\ writer_frames < MaxFrames
            /\ writer_frames' = writer_frames + 1
            /\ msg_counter' = frame_counter(msg_counter, outcome)
            /\ ev' = [NoEv EXCEPT !.op = "sensor", !.writes = NumTopics]
            /\ UNCHANGED <<bag_open, writer, recording_active, open_writers,
                           last_uri>>
    /\ UNCHANGED <<bufferVars, modeVars, timeVars, lockVars, recorded, main_pc,
                   faulty, budget>>

\* --------------------------------------------------------------- inference
\* What building the input and invoking the interpreter can do with one
\* snapshot: produce an output or raise.
InferOutcomes == {"ok", "raise"}

\* dnn_output without its try/except: an exception of the interpreter
\* leaves the function.
dnn_output_propagates(outcome, model_out) ==
    IF Len(buff_scans) < seq_len
    THEN [out |-> <<0, 0>>, invoked |-> FALSE, raised |-> FALSE,
          neutral |-> TRUE, snap |-> [scans |-> <<>>, ts |-> <<>>]]
    ELSE [out |-> IF outcome = "raise" THEN <<0, 0>> ELSE model_out,
          invoked |-> TRUE, raised |-> outcome = "raise",
          neutral |-> FALSE, snap |-> [scans |-> buff_scans, ts |-> buff_ts]]

\* dnn_output that only refuses an empty buffer.
dnn_output_nonempty(outcome, model_out) ==
    IF Len(buff_scans) < 1
    THEN [out |-> <<0, 0>>, invoked |-> FALSE, raised |-> FALSE,
          neutral |-> TRUE, snap |-> [scans |-> <<>>, ts |-> <<>>]]
    ELSE [out |-> IF outcome = "raise" THEN <<0, 0>> ELSE model_out,
          invoked |-> TRUE, raised |-> FALSE,
          neutral |-> outcome = "raise", snap |-> [scans |-> buff_scans, ts |-> buff_ts]]

\* dnn_output: under the lock, return (0.0, 0.0) when fewer than seq_len
\* scans are buffered, else copy both deques; outside the lock, build the
\* input and invoke the interpreter.  Any exception gives (0.0, 0.0).
dnn_output(outcome, model_out) ==
    IF Len(buff_scans) < seq_len
    THEN [out |-> <<0, 0>>, invoked |-> FALSE, raised |-> FALSE,
          neutral |-> TRUE, snap |-> [scans |-> <<>>, ts |-> <<>>]]
    ELSE [out |-> IF outcome = "raise" THEN <<0, 0>> ELSE model_out,
          invoked |-> TRUE, raised |-> FALSE,
          neutral |-> outcome = "raise", snap |-> [scans |-> buff_scans, ts |-> buff_ts]]

\* ------------------------------------------------------------ time feature
\* The header stamp of a LaserScan is (sec, nanosec); here the fraction is in
\* milliseconds.  Stamps of a clock that starts at 0 (simulated time) and
\* stamps of the system clock (seconds since 1970).
SmallStamps == {[sec |-> 0, ms |-> m] : m \in {0, 25, 100, 200, 300, 400}}
EpochStamps ==
    {[sec |-> 1700000000 + x[1], ms |-> x[2]] :
        x \in {<<0, 0>>, <<0, 25>>, <<0, 50>>, <<0, 300>>, <<100, 0>>,
               <<128, 0>>}}

\* The distance between neighbouring float32 values, in seconds, at a value
\* of secs >= 2^23 seconds: a float32 has 24 significant bits.
RECURSIVE Spacing(_)
Spacing(secs) == IF secs < 16777216 THEN 1 ELSE 2 * Spacing(secs \div 2)

\* np.array(ts_list, dtype=np.float32) on one stamp: the nearest float32, ties
\* to the even neighbour.  Below 2^13 seconds neighbouring float32 values
\* are less than a microsecond apart and the stamp is kept as it is at the
\* resolution used here; from 2^23 seconds on a float32 is a whole number of
\* seconds on the grid of Spacing.  (No stamp used here lies in between.)
to_float32(t) ==
    IF t.sec < 8192
    THEN t
    ELSE LET g == Spacing(t.sec)
             q == t.sec \div g
             r == (t.sec % g) * 1000 + t.ms
             half == g * 500
             up == r > half \/ (r = half /\ q % 2 = 1)
         IN  [sec |-> IF up THEN (q + 1) * g ELSE q * g, ms |-> 0]

\* The difference of two float32 stamps, in milliseconds.
sub32(a, b) == (a.sec - b.sec) * 1000 + (a.ms - b.ms)

\* np.diff on the float32 array.
np_diff(ts) == [i \in 1 .. Len(ts) - 1 |-> sub32(ts[i + 1], ts[i])]

\* The constant written at line 272 (0.025), in milliseconds.
fallback_dt == 25

\* Lines 265-278 of dnn_output: the stamps are converted to float32, the
\* successive differences are taken, replaced by the constant when one of
\* them is negative, and a zero is put in front.
dt_full(stamps) ==
    LET ts == [i \in 1 .. Len(stamps) |-> to_float32(stamps[i])]
        diffs == IF \A i \in 1 .. Len(ts) - 1 : np_diff(ts)[i] >= 0
                 THEN np_diff(ts)
                 ELSE [i \in 1 .. seq_len - 1 |-> fallback_dt]
    IN  <<0>> \o diffs

\* dnn_output builds the time channel of its input from a snapshot of
\* buff_ts.
build_dt ==
    /\ main_pc = "spin"
    /\ ev.op = "init"
    /\ Len(buff_ts) = seq_len
    /\ ev' = [NoEv EXCEPT !.op = "dt", !.dt = dt_full(buff_ts)]
    /\ UNCHANGED <<bufferVars, modeVars, bagVars, timeVars, lockVars, recorded,
                   main_pc, faulty, budget>>

\* linear_map, in thousandths.
linear_map(x, x_min, x_max, y_min, y_max) ==
    IF x_max = x_min
    THEN (y_max + y_min) \div 2
    ELSE ((x - x_min) * (y_max - y_min)) \div (x_max - x_min) + y_min

\* The AckermannDriveStamped built from dnn_output's (steer, speed):
\* <<drive.speed, drive.steering_angle>>.
drive_command(out) ==
    LET steer == out[1]
        speed == out[2]
    IN  <<(linear_map(speed, 0, 1000, -500, 7000) * 12) \div 10,
          linear_map(steer, -1000, 1000, -340, 340)>>

\* The bookkeeping without the closing branch.
tick_session_never_closes(b, joy, outcome) ==
    IF joy /\ ~b.bag_open THEN open_bag(b, outcome) ELSE b

\* The session bookkeeping at the start of control_loop.
tick_session(b, joy, outcome) ==
    IF joy /\ ~b.bag_open THEN open_bag(b, outcome)
    ELSE IF ~joy /\ b.bag_open THEN close_bag(b, outcome)
    ELSE b

\* The deadline test of control_loop.
deadline_miss(dur) == dur > period

\* control_loop: session bookkeeping from the parameter read at the start of
\* the tick, then, in autonomous mode, inference, one publish and one append
\* to the trace, then the deadline check: the time since start_ts is compared
\* with the period and start_ts is set to the clock.  An exception that
\* reaches control_loop ends the tick where it is raised.  took is the time
\* that passes between the entry of the tick and its deadline check.
control_loop(bagOutcome, inferOutcome, model_out, took) ==
    /\ main_pc = "spin"
    /\ is_joy \/ recorded < MaxTrace
    /\ took = 0 \/ budget.time > 0
    /\ LET joy == is_joy
           b == tick_session(Bag, joy, bagOutcome)
           r == dnn_output(inferOutcome, model_out)
           completes == ~b.raised /\ (joy \/ ~r.raised)
           publishes == ~joy /\ completes
           ends == now + took
           dur == ends - start_ts
           base == [NoEv EXCEPT !.op = "tick", !.opens = b.opens,
                                !.close_calls = b.close_calls,
                                !.closes = b.closes]
           timed == [base EXCEPT !.dur = dur, !.warned = deadline_miss(dur)]
       IN  /\ SetBag(b)
           /\ recorded' = IF publishes THEN recorded + 1 ELSE recorded
           /\ now' = ends
           /\ tick_began' = now
           /\ start_ts' = IF completes THEN ends ELSE start_ts
           /\ budget' = IF took > 0 THEN [budget EXCEPT !.time = @ - 1]
                         ELSE budget
           /\ ev' = IF publishes
                    THEN [timed EXCEPT !.pub = 1,
                                       !.cmd = drive_command(r.out),
                                       !.invoked = r.invoked,
                                       !.snap = r.snap, !.out = r.out,
                                       !.neutral = r.neutral]
                    ELSE IF completes THEN timed
                    ELSE [base EXCEPT !.raised = TRUE]
    /\ UNCHANGED <<bufferVars, modeVars, lockVars, main_pc, faulty>>

\* The clock advances between two callbacks.
time_passes(d) ==
    /\ main_pc = "spin"
    /\ budget.time > 0
    /\ now' = now + d
    /\ budget' = [budget EXCEPT !.time = @ - 1]
    /\ ev' = [NoEv EXCEPT !.op = "time"]
    /\ UNCHANGED <<bufferVars, modeVars, bagVars, start_ts, tick_began,
                   lockVars, recorded, main_pc, faulty>>

\* ----------------------------------------------------------------- threads
\* lidar_callback and control_loop on two threads of an executor, statement
\* by statement, for the claims about buffer_lock.  The node is autonomous
\* with no session open, and the clock is not looked at.
threadRest == <<modeVars, bagVars, timeVars, main_pc, faulty, budget>>

\* A lock that anyone can take at any time.
lock_acquirable_always(l) == TRUE

\* Lock.acquire returns only when the lock is free.
lock_acquirable(l) == l = "free"

\* A return that leaves the lock as it is.
lock_after_return_held(l) == l

\* The lock after dnn_output has left its with block by the return at line
\* 251 or by an exception: the with statement releases it.
lock_after_return(l) == "free"

\* What list(deque) can do: give the copy or raise.
CopyOutcomes == {"ok", "raise"}

\* lidar_callback, lines 146-150: the scan is built; on success the thread
\* goes on to the with statement.
lidar_enter(t, outcome) ==
    /\ main_pc = "spin"
    /\ lidar_pc = "idle"
    /\ IF outcome = "raise"
       THEN /\ ev' = [NoEv EXCEPT !.op = "lidar", !.raised = TRUE]
            /\ UNCHANGED <<lidar_pc, msg_t>>
       ELSE /\ Len(pushed) < budget.push
            /\ lidar_pc' = "acquire"
            /\ msg_t' = t
            /\ UNCHANGED ev
    /\ UNCHANGED <<bufferVars, threadRest, recorded, buffer_lock, dnn_pc,
                   scans_list, ts_list, dnn_ret>>

\* Line 153: the lock is taken.
lidar_lock ==
    /\ lidar_pc = "acquire"
    /\ lock_acquirable(buffer_lock)
    /\ buffer_lock' = "lidar"
    /\ lidar_pc' = "append_scan"
    /\ UNCHANGED <<bufferVars, threadRest, recorded, dnn_pc, msg_t, scans_list,
                   ts_list, dnn_ret, ev>>

\* Line 154.
lidar_append_scan ==
    /\ lidar_pc = "append_scan"
    /\ buff_scans' = deque_append(buff_scans, Len(pushed) + 1)
    /\ lidar_pc' = "append_ts"
    /\ UNCHANGED <<buff_ts, pushed, threadRest, recorded, buffer_lock, dnn_pc,
                   msg_t, scans_list, ts_list, dnn_ret, ev>>

\* Lines 155-156.
lidar_append_ts ==
    /\ lidar_pc = "append_ts"
    /\ buff_ts' = deque_append(buff_ts, msg_t)
    /\ pushed' = Append(pushed, <<Len(pushed) + 1, msg_t>>)
    /\ lidar_pc' = "release"
    /\ UNCHANGED <<buff_scans, threadRest, recorded, buffer_lock, dnn_pc, msg_t,
                   scans_list, ts_list, dnn_ret, ev>>

\* The end of the with block of lidar_callback.
lidar_unlock ==
    /\ lidar_pc = "release"
    /\ buffer_lock' = "free"
    /\ lidar_pc' = "idle"
    /\ ev' = [NoEv EXCEPT !.op = "lidar"]
    /\ UNCHANGED <<bufferVars, threadRest, recorded, dnn_pc, msg_t, scans_list,
                   ts_list, dnn_ret>>

\* control_loop in autonomous mode up to its call of dnn_output (line 331).
tick_enter ==
    /\ main_pc = "spin"
    /\ dnn_pc = "idle"
    /\ ~is_joy /\ ~bag_open
    /\ recorded < MaxTrace
    /\ dnn_pc' = "acquire"
    /\ UNCHANGED <<bufferVars, threadRest, recorded, buffer_lock, lidar_pc,
                   msg_t, scans_list, ts_list, dnn_ret, ev>>

\* Line 248: the lock is taken.
dnn_lock ==
    /\ dnn_pc = "acquire"
    /\ lock_acquirable(buffer_lock)
    /\ buffer_lock' = "dnn"
    /\ dnn_pc' = "check"
    /\ UNCHANGED <<bufferVars, threadRest, recorded, lidar_pc, msg_t,
                   scans_list, ts_list, dnn_ret, ev>>

\* Lines 249-251: the under-run test.
dnn_check ==
    /\ dnn_pc = "check"
    /\ IF Len(buff_scans) < seq_len
       THEN /\ dnn_ret' = [NoRet EXCEPT !.neutral = TRUE]
            /\ dnn_pc' = "return"
       ELSE /\ dnn_pc' = "copy_scans"
            /\ UNCHANGED dnn_ret
    /\ UNCHANGED <<bufferVars, threadRest, recorded, buffer_lock, lidar_pc,
                   msg_t, scans_list, ts_list, ev>>

\* Line 254; an exception raised by the copy leaves the with block for the
\* handler at line 306.
dnn_copy_scans(outcome) ==
    /\ dnn_pc = "copy_scans"
    /\ IF outcome = "raise"
       THEN /\ dnn_ret' = [NoRet EXCEPT !.neutral = TRUE]
            /\ dnn_pc' = "return"
            /\ UNCHANGED scans_list
       ELSE /\ scans_list' = buff_scans
            /\ dnn_pc' = "copy_ts"
            /\ UNCHANGED dnn_ret
    /\ UNCHANGED <<bufferVars, threadRest, recorded, buffer_lock, lidar_pc,
                   msg_t, ts_list, ev>>

\* Line 255.
dnn_copy_ts ==
    /\ dnn_pc = "copy_ts"
    /\ ts_list' = buff_ts
    /\ dnn_pc' = "release"
    /\ UNCHANGED <<bufferVars, threadRest, recorded, buffer_lock, lidar_pc,
                   msg_t, scans_list, dnn_ret, ev>>

\* The end of the with block of dnn_output after the copies.
dnn_unlock ==
    /\ dnn_pc = "release"
    /\ buffer_lock' = "free"
    /\ dnn_pc' = "invoke"
    /\ UNCHANGED <<bufferVars, threadRest, recorded, lidar_pc, msg_t,
                   scans_list, ts_list, dnn_ret, ev>>

\* dnn_output leaves the with block without a snapshot and returns
\* (0.0, 0.0) to control_loop.
dnn_return ==
    /\ dnn_pc = "return"
    /\ buffer_lock' = lock_after_return(buffer_lock)
    /\ dnn_pc' = "publish"
    /\ UNCHANGED <<bufferVars, threadRest, recorded, lidar_pc, msg_t,
                   scans_list, ts_list, dnn_ret, ev>>

\* Lines 257-308: the input is built and the interpreter invoked.
dnn_invoke(outcome, model_out) ==
    /\ dnn_pc = "invoke"
    /\ dnn_ret' = IF outcome = "raise"
                  THEN [out |-> <<0, 0>>, invoked |-> TRUE, neutral |-> TRUE]
                  ELSE [out |-> model_out, invoked |-> TRUE,
                        neutral |-> FALSE]
    /\ dnn_pc' = "publish"
    /\ UNCHANGED <<bufferVars, threadRest, recorded, buffer_lock, lidar_pc,
                   msg_t, scans_list, ts_list, ev>>

\* Lines 334-355: the command is published and appended to the trace, and
\* the tick ends.
tick_publish ==
    /\ dnn_pc = "publish"
    /\ recorded' = recorded + 1
    /\ ev' = [NoEv EXCEPT !.op = "tick", !.pub = 1,
                          !.cmd = drive_command(dnn_ret.out),
                          !.invoked = dnn_ret.invoked,
                          !.snap = [scans |-> scans_list, ts |-> ts_list],
                          !.out = dnn_ret.out, !.neutral = dnn_ret.neutral]
    /\ dnn_pc' = "idle"
    /\ scans_list' = <<>>
    /\ ts_list' = <<>>
    /\ dnn_ret' = NoRet
    /\ UNCHANGED <<bufferVars, threadRest, buffer_lock, lidar_pc, msg_t>>

\* The steps of the thread in lidar_callback, and of the one in control_loop.
LidarThread ==
    lidar_lock \/ lidar_append_scan \/ lidar_append_ts \/ lidar_unlock

ControlThread ==
    \/ dnn_lock
    \/ dnn_check
    \/ \E o \in CopyOutcomes : dnn_copy_scans(o)
    \/ dnn_copy_ts
    \/ dnn_unlock
    \/ dnn_return
    \/ \E o \in InferOutcomes, m \in ModelOuts : dnn_invoke(o, m)
    \/ tick_publish

\* -------------------------------------------------------------------- main
\* rclpy.spin returns or raises (normal stop, KeyboardInterrupt, Exception):
\* every one of them reaches the finally block.
spin_ends(cause) ==
    /\ main_pc = "spin"
    /\ main_pc' = "finally"
    /\ ev' = [NoEv EXCEPT !.op = cause]
    /\ UNCHANGED <<bufferVars, modeVars, bagVars, timeVars, lockVars, recorded,
                   faulty, budget>>

\* plot_results, the first statement of the finally block: savefig writes to
\* Figures/ and raises when it cannot; the exception leaves main.
plot_results(outcome) ==
    /\ main_pc = "finally"
    /\ main_pc' = IF outcome = "raise" THEN "raised" ELSE "destroy"
    /\ ev' = [NoEv EXCEPT !.op = "plot", !.raised = outcome = "raise"]
    /\ UNCHANGED <<bufferVars, modeVars, bagVars, timeVars, lockVars, recorded,
                   faulty, budget>>

\* destroy_node: _close_bag, then Node.destroy_node.
destroy_node(outcome) ==
    /\ main_pc = "destroy"
    /\ LET b == close_bag(Bag, outcome)
       IN  /\ SetBag(b)
           /\ main_pc' = IF b.raised THEN "raised" ELSE "shutdown"
           /\ ev' = [NoEv EXCEPT !.op = "destroy",
                                 !.close_calls = b.close_calls,
                                 !.closes = b.closes,
                                 !.raised = b.raised]
    /\ UNCHANGED <<bufferVars, modeVars, timeVars, lockVars, recorded, faulty,
                   budget>>

\* rclpy.shutdown(), the last statement of the finally block.
rclpy_shutdown ==
    /\ main_pc = "shutdown"
    /\ main_pc' = "exited"
    /\ ev' = [NoEv EXCEPT !.op = "shutdown"]
    /\ UNCHANGED <<bufferVars, modeVars, bagVars, timeVars, lockVars, recorded,
                   faulty, budget>>

\* ----------------------------------------------------------- specification
\* No callback is running: the lock is free and the locals are unset.
InitThreads ==
    /\ buffer_lock = "free"
    /\ lidar_pc = "idle"
    /\ dnn_pc = "idle"
    /\ msg_t = 0
    /\ scans_list = <<>>
    /\ ts_list = <<>>
    /\ dnn_ret = NoRet

\* The node after __init__ (lines 66-77, 140-142), spinning.
InitNode ==
    /\ buff_scans = <<>>
    /\ buff_ts = <<>>
    /\ is_joy = FALSE
    /\ prev_button = 0
    /\ bag_open = FALSE
    /\ writer = "none"
    /\ recording_active = FALSE
    /\ msg_counter = 0
    /\ recorded = 0
    /\ main_pc = "spin"
    /\ now = 0
    /\ start_ts = now
    /\ tick_began = now
    /\ last_uri = -1
    /\ InitThreads
    /\ pushed = <<>>
    /\ buttons = <<>>
    /\ flips = {}
    /\ writer_frames = 0
    /\ open_writers = 0
    /\ ev = NoEv

\* A run either delivers many Joy messages and no scan, or many scans and
\* few Joy messages, or sees the clock advance.
Budgets ==
    {[push |-> 0, btn |-> MaxButtons, time |-> 0],
     [push |-> MaxPush, btn |-> FewButtons, time |-> 0],
     [push |-> 0, btn |-> 1, time |-> MaxTime]}

Init == InitNode /\ faulty = FALSE /\ budget \in Budgets

\* The runs in which every writer call and the plot can raise.
FaultBudgets ==
    {[push |-> seq_len, btn |-> FewButtons, time |-> 0],
     [push |-> 0, btn |-> 1, time |-> 1]}

InitFault == InitNode /\ faulty = TRUE /\ budget \in FaultBudgets

Next ==
    \/ \E t \in Stamps, o \in ScanOutcomes : lidar_callback(t, o)
    \/ \E curr \in ButtonValues, o \in Outcomes : button_callback(curr, o)
    \/ \E v \in BOOLEAN : set_parameter(v)
    \/ \E o \in WriteOutcomes, n \in PartialWrites : sensor_cb(o, n)
    \/ \E o \in Outcomes, i \in InferOutcomes, m \in ModelOuts,
          took \in TickTimes : control_loop(o, i, m, took)
    \/ \E d \in Waits : time_passes(d)
    \/ \E cause \in {"stop", "interrupt", "error"} : spin_ends(cause)
    \/ \E o \in Outcomes : plot_results(o)
    \/ \E o \in Outcomes : destroy_node(o)
    \/ rclpy_shutdown

\* The node with the failures its error handling is written for: the
\* interpreter and the writer's write can raise; the other calls return.
Spec == Init /\ [][Next]_vars

\* The node when the writer's open and close and the plot can raise too.
SpecFault == InitFault /\ [][Next]_vars

\* The node with a full buffer whose scans carry header stamps, before the
\* first control tick.
InitDelta ==
    /\ buff_scans = [i \in 1 .. seq_len |-> i]
    /\ \/ buff_ts \in [1 .. seq_len -> SmallStamps]
       \/ buff_ts \in [1 .. seq_len -> EpochStamps]
    /\ pushed = [i \in 1 .. seq_len |-> <<i, buff_ts[i]>>]
    /\ is_joy = FALSE
    /\ prev_button = 0
    /\ bag_open = FALSE
    /\ writer = "none"
    /\ recording_active = FALSE
    /\ msg_counter = 0
    /\ recorded = 0
    /\ main_pc = "spin"
    /\ now = 0
    /\ start_ts = now
    /\ tick_began = now
    /\ last_uri = -1
    /\ InitThreads
    /\ buttons = <<>>
    /\ flips = {}
    /\ writer_frames = 0
    /\ open_writers = 0
    /\ ev = NoEv
    /\ faulty = FALSE
    /\ budget = [push |-> seq_len, btn |-> 0, time |-> 0]

\* The computation of the time channel on every full buffer.
SpecDelta == InitDelta /\ [][build_dt]_vars

NextThreads ==
    \/ \E t \in Stamps, o \in ScanOutcomes : lidar_enter(t, o)
    \/ LidarThread
    \/ tick_enter
    \/ ControlThread

InitT ==
    /\ InitNode
    /\ faulty = FALSE
    /\ budget = [push |-> MaxPush, btn |-> 0, time |-> 0]

\* The two threads, interleaved statement by statement.
SpecThreads == InitT /\ [][NextThreads]_vars

\* The same with a scheduler that lets every thread that can take a step
\* take one eventually.
SpecThreadsFair ==
    SpecThreads /\ WF_vars(LidarThread) /\ WF_vars(ControlThread)

\* ================================================================== claims
Min(a, b) == IF a < b THEN a ELSE b

\* C1: at most one recording session exists at a time: no log-writer is
\* opened while a previously opened one has not been closed, so a request to
\* open while a session is Open opens nothing.
C1_AtMostOneSession ==
    /\ open_writers <= 1
    /\ bag_open <=> open_writers = 1

\* A toggle into manual mode that found the session Open and opened nothing.
C1_Witness ==
    /\ ev.op = "button" /\ ev.flipped /\ is_joy
    /\ ev.opens = 0 /\ bag_open /\ open_writers = 1

\* The positions of a button sequence at which a 1 follows a 0 (a 0 is taken
\* to precede the first message).
RisingPositions(bs) ==
    {i \in 1 .. Len(bs) : bs[i] = 1 /\ (IF i = 1 THEN 0 ELSE bs[i - 1]) = 0}

\* C2: the mode flips on exactly the button messages whose value is 1 and
\* whose preceding value was 0; in particular [0,1,1,0,1] flips it exactly
\* at positions 2 and 5.
C2_FlipsOnRisingEdges ==
    /\ flips = RisingPositions(buttons)
    /\ buttons = <<0, 1, 1, 0, 1>> => flips = {2, 5}

\* The inputs [0,1,1,0,1] have been delivered and the mode flipped twice.
C2_Witness == buttons = <<0, 1, 1, 0, 1>> /\ flips = {2, 5}

C4_NoWriteWhenClosed ==
    /\ [](/\ recording_active => bag_open
          /\ bag_open => writer # "none"
          /\ (ev.op = "sensor" /\ (ev.writes > 0 \/ ev.raised))
                => writer = "open")
    /\ [][(ev'.op = "sensor" /\ ~bag_open)
            => /\ ev'.writes = 0
               /\ ~ev'.raised
               /\ msg_counter' = msg_counter]_vars

\* A frame arrived while the session was Closed after an earlier session had
\* counted a frame: it was dropped.
C4_Witness ==
    ev.op = "sensor" /\ ~bag_open /\ ev.writes = 0 /\ msg_counter = 1

\* C5: the counter is 0 when a session opens and grows by one per frame
\* written, so it equals the frames the writer has accepted since the last
\* open (also at close), and it never decreases while the session is Open.
C5_CounterCountsFrames ==
    /\ [](bag_open => msg_counter = writer_frames)
    /\ [][/\ ev'.opens = 1 => msg_counter' = 0
          /\ (ev'.op = "sensor" /\ ev'.writes = NumTopics)
                => msg_counter' = msg_counter + 1
          /\ (bag_open /\ ev'.closes = 1)
                => /\ msg_counter' = msg_counter
                   /\ msg_counter' = writer_frames
          /\ (bag_open /\ bag_open') => msg_counter' >= msg_counter]_vars

\* open(); write(); write(); close(): the session closed with a count of 2.
C5_Witness ==
    ev.closes = 1 /\ ~bag_open /\ msg_counter = 2

\* C6: _close_bag on an Open session closes the writer exactly once and leaves
\* the session Closed with the handle released, with or without frames;
\* on a Closed session it calls no writer operation and changes nothing.
C6_CloseIdempotent ==
    [][ev'.close_calls = 1
        => /\ ~bag_open' /\ ~recording_active' /\ writer' = "none"
           /\ open_writers' = 0
           /\ ev'.closes = (IF bag_open THEN 1 ELSE 0)
           /\ ~bag_open => UNCHANGED bagVars]_vars

\* destroy_node called _close_bag on a session that a button callback had
\* already closed: the second close did nothing.
C6_Witness ==
    /\ ev.op = "destroy" /\ ev.close_calls = 1 /\ ev.closes = 0
    /\ Len(buttons) >= 2 /\ Cardinality(flips) = 2 /\ msg_counter = 0

\* C7 as stated: on every path out of main, an Open session has been closed
\* by _close_bag before rclpy.shutdown() and before main is left.
C7_ClosedOnEveryExit ==
    main_pc \in {"shutdown", "exited", "raised"}
        => (~bag_open /\ open_writers = 0)

\* C8: a control tick in autonomous mode publishes exactly one DriveCommand,
\* whatever the buffer holds, whatever the interpreter does and whether or
\* not the tick opened or closed a session; a tick in manual mode publishes
\* none.
C8_OneCommandPerAutonomousTick ==
    ev.op = "tick" => ev.pub = (IF is_joy THEN 0 ELSE 1)

\* An autonomous tick closed a session, ran with a full buffer and an
\* interpreter that raised, and published.
C8_Witness ==
    /\ ev.op = "tick" /\ ~is_joy /\ ev.closes = 1 /\ ev.pub = 1
    /\ ev.invoked /\ ev.out = <<0, 0>>

\* The last n entries of a sequence.
LastN(q, n) == SubSeq(q, Len(q) - n + 1, Len(q))

\* C9: after k pushes the buffer holds exactly the last min(k, seq_len)
\* pushed (scan, timestamp) pairs in arrival order, whatever the timestamps.
C9_FifoEviction ==
    LET n == Min(Len(pushed), seq_len)
        last == LastN(pushed, n)
    IN  /\ Len(buff_scans) = n
        /\ Len(buff_ts) = n
        /\ \A i \in 1 .. n : <<buff_scans[i], buff_ts[i]>> = last[i]

\* More pairs than the capacity were pushed, and the buffer holds timestamps
\* that decrease in arrival order.
C9_Witness ==
    /\ Len(pushed) > seq_len
    /\ buff_ts[1] > buff_ts[2]
    /\ buff_scans[1] = Len(pushed) - 1

\* C10: while fewer than seq_len scans have been pushed, dnn_output returns
\* (0, 0) without invoking the interpreter; afterwards it works on a copy of
\* the buffered scans and timestamps in arrival order and leaves the buffer
\* as it was.
C10_Snapshot ==
    /\ [](( ev.op = "tick" /\ ev.pub = 1) =>
            IF Len(pushed) < seq_len
            THEN ~ev.invoked /\ ev.out = <<0, 0>>
                 /\ ev.snap = [scans |-> <<>>, ts |-> <<>>]
            ELSE /\ ev.invoked
                 /\ Len(ev.snap.scans) = seq_len
                 /\ Len(ev.snap.ts) = seq_len
                 /\ \A i \in 1 .. seq_len :
                        <<ev.snap.scans[i], ev.snap.ts[i]>>
                            = LastN(pushed, seq_len)[i])
    /\ [][ev'.op = "tick" => UNCHANGED bufferVars]_vars

\* A tick took a snapshot of a buffer that had already evicted a pair.
C10_Witness ==
    /\ ev.op = "tick" /\ ev.invoked /\ Len(pushed) > seq_len
    /\ ev.snap.scans = buff_scans /\ ev.snap.ts = buff_ts

\* C11 as stated: when inference cannot run on an autonomous tick (under-run
\* or an exception inside dnn_output), the DriveCommand published on that
\* tick has speed 0 and steering angle 0.
C11_NeutralCommandIsZero ==
    (ev.op = "tick" /\ ev.pub = 1 /\ ev.neutral) => ev.cmd = <<0, 0>>

\* C12: an exception raised while the input is built or the model invoked is
\* turned into the output (0, 0) inside dnn_output; no exception reaches
\* control_loop, which publishes, appends to the trace and makes its deadline
\* check on that tick, and the next tick runs inference as usual.
C12_InferenceErrorContained ==
    /\ [](ev.op = "tick" => ~ev.raised)
    /\ []((ev.op = "tick" /\ ev.invoked /\ ev.neutral)
            => (ev.out = <<0, 0>> /\ ev.pub = 1))
    /\ [][(ev'.op = "tick" /\ ~is_joy)
            => /\ ev'.pub = 1
               /\ recorded' = recorded + 1
               /\ ev'.dur = now' - start_ts
               /\ start_ts' = now'
               /\ main_pc' = "spin"]_vars
    /\ [][(/\ ev.op = "tick" /\ ev.invoked /\ ev.neutral
           /\ ev'.op = "tick" /\ ~is_joy /\ Len(buff_scans) = seq_len)
            => /\ ev'.invoked
               /\ ev'.snap.scans = buff_scans
               /\ ev'.neutral \/ ev'.out \in ModelOuts]_vars

\* The second command of a run was published by a tick whose interpreter
\* raised.
C12_Witness ==
    /\ ev.op = "tick" /\ ev.invoked /\ ev.neutral /\ ev.pub = 1
    /\ recorded = 2 /\ start_ts = now

\* C13 as stated: on each control tick the elapsed time compared with the
\* period is measured from the start of the previous tick (from construction
\* on the first tick), a warning is logged exactly when it exceeds the
\* period, and the tick completes and resets the reference timestamp.
C13_DeadlineFromPreviousStart ==
    [][ev'.op = "tick"
        => /\ ev'.warned <=> (now' - tick_began > period)
           /\ ~ev'.raised
           /\ start_ts' = now']_vars

\* The exact difference of two header stamps, in milliseconds.
StampDiff(a, b) == (a.sec - b.sec) * 1000 + (a.ms - b.ms)

\* C14 as stated: on a full snapshot with stamps t_1..t_n the delta channel
\* is [0, t_2-t_1, ..., t_n-t_(n-1)] when no successive difference is
\* negative, and [0, period, ..., period] when one is.
C14_DeltaChannel ==
    ev.op = "dt" =>
        LET n == Len(buff_ts)
            d == [i \in 1 .. n - 1 |-> StampDiff(buff_ts[i + 1], buff_ts[i])]
        IN  ev.dt = <<0>> \o (IF \A i \in 1 .. n - 1 : d[i] >= 0
                               THEN d
                               ELSE [i \in 1 .. n - 1 |-> period])

\* Every scan of a copy is paired with the stamp it was pushed with.
Paired(scans, ts) ==
    /\ Len(scans) = Len(ts)
    /\ \A i \in 1 .. Len(scans) :
           /\ scans[i] <= Len(pushed)
           /\ pushed[scans[i]] = <<scans[i], ts[i]>>

\* C16: under every interleaving of the statements of lidar_callback and
\* dnn_output, a snapshot holds as many stamps as scans and its i-th stamp is
\* the one pushed with its i-th scan (so no scan whose stamp is still to be
\* appended), and the two deques have the same length whenever buffer_lock
\* is free.
C16_ConsistentSnapshots ==
    /\ buffer_lock = "free" => Len(buff_scans) = Len(buff_ts)
    /\ dnn_pc \in {"release", "invoke", "publish"}
          => Paired(scans_list, ts_list)
    /\ (ev.op = "tick" /\ ev.invoked)
          => /\ Len(ev.snap.scans) = seq_len
             /\ Paired(ev.snap.scans, ev.snap.ts)

\* A full snapshot has been taken and the lock released, and the producer
\* holds the lock between its two appends, the oldest scan evicted and its
\* stamp not yet.
C16_Witness ==
    /\ dnn_pc = "invoke" /\ Len(scans_list) = seq_len
    /\ lidar_pc = "append_ts" /\ buffer_lock = "lidar"
    /\ Len(pushed) = seq_len /\ buff_scans[1] # scans_list[1]

\* C17: buffer_lock is held by a thread only between its acquire and the end
\* of its with block, never while the model is invoked or the command
\* published nor after lidar_callback or dnn_output has returned, and a
\* thread that waits for the lock gets it.
C17_LockHeldBriefly ==
    /\ [](lidar_pc \in {"idle", "acquire"} => buffer_lock # "lidar")
    /\ [](dnn_pc \in {"idle", "acquire", "invoke", "publish"}
            => buffer_lock # "dnn")
    /\ (lidar_pc = "acquire") ~> (buffer_lock = "lidar")
    /\ (dnn_pc = "acquire") ~> (buffer_lock = "dnn")

\* The producer waits for the lock while dnn_output, which found too few
\* scans, is about to leave its with block by the early return.
C17_Witness ==
    /\ lidar_pc = "acquire" /\ buffer_lock = "dnn" /\ dnn_pc = "return"
    /\ Len(buff_scans) < seq_len

\* C18: a write that raises while a frame is recorded ends in sensor_cb: the
\* session stays Open with recording active and its writer, the counter is
\* not incremented for the frame, no message of the frame is written twice,
\* the node keeps spinning, and the next frame delivered is written whole
\* and counted.
C18_WriteErrorContained ==
    /\ [][(ev'.op = "sensor" /\ ev'.raised)
            => /\ bag_open /\ bag_open'
               /\ recording_active /\ recording_active'
               /\ writer' = writer
               /\ msg_counter' = msg_counter
               /\ ev'.writes < NumTopics
               /\ main_pc' = "spin"]_vars
    /\ [][(ev.op = "sensor" /\ ev.raised /\ ev'.op = "sensor" /\ ~ev'.raised)
            => /\ ev'.writes = NumTopics
               /\ msg_counter' = msg_counter + 1]_vars

\* After one frame had been counted, a frame failed with half of its
\* messages written and left the session Open and the counter at 1.
C18_Witness ==
    /\ ev.op = "sensor" /\ ev.raised /\ ev.writes = NumTopics \div 2
    /\ bag_open /\ recording_active /\ writer = "open" /\ msg_counter = 1

\* C19 as stated: after every button callback, also one in which the session
\* open or close raised, prev_button is the value of the message just
\* processed, and a 1 that follows a 1 does not flip the mode.
C19_PrevButtonTracksInput ==
    LET n == Len(buttons)
    IN  ev.op = "button"
            => /\ prev_button = buttons[n]
               /\ (n >= 2 /\ buttons[n] = 1 /\ buttons[n - 1] = 1)
                      => ~ev.flipped

\* C20 as stated: every session opened gets a container identifier that
\* differs from the one of the session opened before it (the clock never
\* runs backwards, so from every earlier one), also when it is opened right
\* after the previous session was closed.
C20_DistinctContainers ==
    [][ev'.opens = 1 => last_uri' # last_uri]_vars

====
